---- MODULE Spec2Model ----
(***************************************************************************)
(* Model of the training engine of PINN_cont_customized_rev.ipynb:         *)
(* closure (lines 160-174), the loss terms it assembles (lines 105-148),   *)
(* the training-point setup (lines 259-267) and train (lines 177-191),     *)
(* which hands closure to torch.optim.LBFGS.step with the strong-Wolfe     *)
(* line search.                                                            *)
(*                                                                         *)
(* Floating-point quantities are abstracted: a parameter vector is a value *)
(* of ParamValues, a sub-loss is a small natural, and every numeric        *)
(* test of the optimizer (tolerances, Wolfe conditions) is a               *)
(* nondeterministic choice.  The autograd bookkeeping that decides whether *)
(* an operation raises (requires_grad, is_leaf) is modelled exactly.       *)
(***************************************************************************)
EXTENDS Integers, Sequences, FiniteSets

\* ---------------------------------------------------------------- bounds
\* stands in for max_iter = 50000 (line 181)
MaxIter == 2
\* stands in for max_eval = 50000 (line 182)
MaxEval == 26
\* a smaller stand-in for max_eval, for the runs checked for termination
FairMaxEval == 3
\* a stand-in for max_eval that ends a run after its first line search
LossMaxEval == 1
\* stand-ins for max_iter and max_eval in the runs long enough for three reports
ReportMaxIter == 6
ReportMaxEval == 150
\* abstract parameter vectors are 0..MaxParam
MaxParam == 1
\* every sub-loss takes a value in 0..MaxLoss
MaxLoss == 1
\* an evaluation may raise on call 1..MaxRaiseAt (0: never)
MaxRaiseAt == 3

\* ------------------------------------------------------------- constants
\* line 170: if iter % 50 == 0
ReportEvery == 50
\* strong_wolfe (line 186) evaluates once and then at most max_ls more times
max_ls == 25

ParamValues == 0..MaxParam
\* the values (mse_f, mse_0, Dirichlet term, Neumann term) can take at a point:
\* each is a mean of squares, any of them zero or positive whatever the others
TermValues == [f : 0..MaxLoss, z : 0..MaxLoss, d : 0..MaxLoss, n : 0..MaxLoss]
\* the points at which the initial and the boundary terms are at their largest
\* and the residual term alone varies
SteadyTermValues ==
  {v \in TermValues : v.z = MaxLoss /\ v.d = MaxLoss /\ v.n = MaxLoss}
\* the statements of a closure evaluation that call the approximator or autograd
Stages == {"mse_f", "mse_0", "mse_dirichlet", "mse_neumann", "backward"}
NoTerms == [f |-> 0, z |-> 0, d |-> 0, n |-> 0]

VARIABLES
  pc,             \* position of train / LBFGS.step
  iter,           \* the global counter of line 19
  params,         \* the approximator's parameters
  grad,           \* .grad of the parameters: the evaluations whose backward contributed
  reports,        \* what line 171 printed, as <<iter, loss>> pairs
  n_iter,         \* LBFGS.step: outer iterations begun
  current_evals,  \* LBFGS.step: closure evaluations counted by the optimizer
  ls_func_evals,  \* strong_wolfe: evaluations of the running line search
  x_init,         \* LBFGS.step: the parameters cloned before the line search
  last,           \* outcome of the latest closure call; kept tells whether it
                  \* left the parameters as it found them
  writes,         \* number of writes the optimizer made to the parameters
  x_f, t_f, t_b,  \* autograd flags of the coordinate tensors handed to train
  max_iter,       \* the optimizer's option max_iter (line 181)
  max_eval,       \* the optimizer's option max_eval (line 182)
  raiseAt         \* the closure call and the stage of it that raise (call 0: never)

vars == <<pc, iter, params, grad, reports, n_iter, current_evals, ls_func_evals,
          x_init, last, writes, x_f, t_f, t_b, max_iter, max_eval, raiseAt>>

\* ------------------------------------------------------ autograd tensors
\* a tensor created from data: a leaf, requiring grad or not
Leaf(rg) == [rg |-> rg, leaf |-> TRUE]

\* the result of an operation on the tensors ins, recorded under enable_grad:
\* it requires grad iff an input does, and is then no leaf
Derived(ins) ==
  LET r == \E t \in ins : t.rg
  IN [rg |-> r, leaf |-> ~r]

\* tensor.requires_grad = True: "you can only change requires_grad flags of
\* leaf variables"
CanFlag(t) == t.leaf

\* derivative(dy, x, order): torch.autograd.grad raises unless dy has a graph
\* and x requires grad
derivative(dy, x) == dy.rg /\ x.rg

\* the parameters of the approximator are leaves requiring grad
Weights == Leaf(TRUE)

\* ------------------------------------------------------------ loss terms
\* the result of a sub-loss that raised
Broken(done) == [ok |-> FALSE, val |-> 0, done |-> done]

\* f / mse_f: u = model(stack(x_f, t_f)), u_t = derivative(u, t_f, 1),
\* u_xx = derivative(u, x_f, 2); raises when the forward pass raises or a
\* coordinate is no differentiation variable.  val is (f_u ** 2).mean().
mse_f(v, raise) ==
  LET u == Derived({x_f, t_f, Weights})
  IN IF raise = "mse_f" \/ ~derivative(u, t_f) \/ ~derivative(u, x_f)
     THEN Broken(<<>>)
     ELSE [ok |-> TRUE, val |-> v.f, done |-> <<"mse_f">>]

\* mse_0: the prediction at (x_0, 0) against u_0; takes no derivative and
\* raises only when the forward pass does
mse_0(v, raise) ==
  IF raise = "mse_0" THEN Broken(<<>>)
  ELSE [ok |-> TRUE, val |-> v.z, done |-> <<"mse_0">>]

\* the Neumann-side coordinate of mse_b: x_b_lower = 2*np.pi*torch.exp(-t_b)
x_b_lower == Derived({t_b})

\* mse_b: x_b_upper is a fresh leaf and is flagged, the Dirichlet term is
\* computed, x_b_lower is flagged as a differentiation variable (line 143),
\* then the Neumann term with its derivative; the sum of the two is returned.
\* done lists the parts computed before it returned or raised.
mse_b(v, raise) ==
  LET x_b_upper == Leaf(FALSE)
      flagged   == [x_b_lower EXCEPT !.rg = TRUE]
      u_b_lower == Derived({flagged, t_b, Weights})
  IN IF ~CanFlag(x_b_upper) \/ raise = "mse_dirichlet" THEN Broken(<<>>)
     ELSE IF ~CanFlag(x_b_lower) THEN Broken(<<"mse_dirichlet">>)
     ELSE IF raise = "mse_neumann" \/ ~derivative(u_b_lower, flagged)
       THEN Broken(<<"mse_dirichlet">>)
     ELSE [ok |-> TRUE, val |-> v.d + v.n,
           done |-> <<"mse_dirichlet", "mse_neumann">>]

\* --------------------------------------------------------------- closure
\* as forward, with a forward pass that writes the parameters in place
forward_inplace(p) == (p + 1) % (MaxParam + 1)

\* Wave.forward (lines 89-94) reads the parameters and leaves them as they are
forward(p) == p

\* as zero_grad, with the clearing left out
zero_grad_skipped(g) == g

\* optimizer.zero_grad() (line 164): the accumulated gradients are dropped
zero_grad(g) == {}

\* as Combined, with the boundary term left out
Combined_no_boundary(rf, r0, rb) == rf.val + r0.val

\* line 166: loss = mse_f(...) + mse_0(...) + mse_b(...)
Combined(rf, r0, rb) == rf.val + r0.val + rb.val

\* as backward, with no gradient computed
backward_skipped(g, id) == g

\* loss.backward(retain_graph=True) (line 167) adds the gradient of the loss
\* of evaluation id to what the parameters already hold
backward(g, id) == g \cup {id}

\* as CounterStep, counting an evaluation twice
CounterStep_twice(it) == it + 2

\* lines 168-169: global iter; iter += 1
CounterStep(it) == it + 1

\* as Due, tested on the counter before the increment
Due_before(it) == (it - 1) % ReportEvery = 0

\* line 170: if iter % 50 == 0, tested on the incremented counter
Due(it) == it % ReportEvery = 0

\* the outcome of a closure call that raised in stage st after the steps of
\* log, with gradients g: nothing after the raising statement has run, and
\* nothing is returned
Raised(g, it, reps, st, log) ==
  [ok |-> FALSE, stage |-> st, log |-> log, grad |-> g, iter |-> it,
   reports |-> reps, loss |-> 0, terms |-> NoTerms, ret |-> <<>>,
   kept |-> \A p \in ParamValues : forward(p) = p]

\* closure(model, optimizer, x_f, t_f, x_0, u_0, t) called with accumulated
\* gradients g, counter it and printed reports reps; v are the values the
\* sub-losses take at the parameters the approximator holds, raise is the
\* stage in which a forward pass or backward raises on this call ("none": no
\* such error).  The operands of line 166 are evaluated left to right.  The
\* parameters are no argument of closure: it touches them through the forward
\* pass only, and kept records whether that leaves them as they are.  ret is
\* what `return loss` hands to the caller.
closure(g, it, reps, v, raise) ==
  LET g0    == zero_grad(g)
      rf    == mse_f(v, raise)
      r0    == mse_0(v, raise)
      rb    == mse_b(v, raise)
      total == Combined(rf, r0, rb)
      g1    == backward(g0, it + 1)
      it1   == CounterStep(it)
      rep1  == IF Due(it1) THEN Append(reps, <<it1, total>>) ELSE reps
      steps == <<"zero_grad">> \o rf.done \o r0.done \o rb.done
  IN IF ~rf.ok THEN Raised(g0, it, reps, "mse_f", <<"zero_grad">>)
     ELSE IF ~r0.ok
       THEN Raised(g0, it, reps, "mse_0", <<"zero_grad">> \o rf.done)
     ELSE IF ~rb.ok
       THEN Raised(g0, it, reps, "mse_b",
                   <<"zero_grad">> \o rf.done \o r0.done \o rb.done)
     ELSE IF raise = "backward" THEN Raised(g0, it, reps, "backward", steps)
     ELSE [ok |-> TRUE, stage |-> "return",
           log |-> steps \o <<"backward", "iter", "return">>,
           grad |-> g1, iter |-> it1, reports |-> rep1, loss |-> total,
           terms |-> v, ret |-> <<total>>,
           kept |-> \A p \in ParamValues : forward(p) = p]

\* the stage that raises in the call that would be number raiseAt.call
RaiseStage == IF raiseAt.call = iter + 1 THEN raiseAt.stage ELSE "none"

\* --------------------------------------------------- train and LBFGS.step
\* the states of the driver that end a run
Terminal == {"Converged", "IterationBudgetExhausted", "Failed"}

\* train has no try/except and LBFGS.step none around closure(): an error
\* raised by closure leaves step and train at once; otherwise step goes on
Outcome(r, next) == IF r.ok THEN next ELSE "Failed"

\* as LsMayContinue, without the cap on the line search
LsMayContinue_unbounded(e) == TRUE

\* strong_wolfe: `while ls_iter < max_ls` guards every evaluation after the
\* first; e evaluations done means ls_iter = e - 1
LsMayContinue(e) == e - 1 < max_ls

\* no run makes more closure calls than this
MaxCalls == 1 + max_iter * (max_ls + 1)

\* what a closure call leaves in the global counter, the gradients, the
\* printed output and the record of the latest call, ret being what the caller
\* (LBFGS.step, strong_wolfe) receives.  What the optimizer then does with the
\* value (orig_loss, the bracket of the line search, the loss of the accepted
\* step) is not modelled.
Called(r) ==
  /\ iter' = r.iter
  /\ grad' = r.grad
  /\ reports' = r.reports
  /\ last' = [ok |-> r.ok, stage |-> r.stage, log |-> r.log, loss |-> r.loss,
              terms |-> r.terms, ret |-> r.ret, kept |-> r.kept]

\* the errors a run may meet: none, or one in a stage of one closure call
RaiseValues ==
  {[call |-> 0, stage |-> "none"]} \cup [call : 1..MaxRaiseAt, stage : Stages]

\* the state before train is called, with options max_iter = iters and
\* max_eval = budget
InitWith(iters, budget) ==
  /\ pc = "Idle"
  /\ iter = 0
  /\ params \in ParamValues
  /\ x_init = params
  /\ grad = {}
  /\ reports = <<>>
  /\ n_iter = 0
  /\ current_evals = 0
  /\ ls_func_evals = 0
  /\ writes = 0
  /\ last = [ok |-> FALSE, stage |-> "none", log |-> <<>>, loss |-> 0,
             terms |-> NoTerms, ret |-> <<>>, kept |-> TRUE]
  /\ x_f \in {Leaf(TRUE), Leaf(FALSE)}
  /\ t_f \in {Leaf(TRUE), Leaf(FALSE)}
  /\ t_b \in {Leaf(TRUE), Leaf(FALSE)}
  /\ raiseAt \in RaiseValues
  /\ max_iter = iters
  /\ max_eval = budget

\* the training-point setup of lines 259-267 with the Wave approximator:
\* x_f and t_f flagged, t_x_train built with requires_grad=False, and no
\* error in a forward pass or in backward
Reference ==
  /\ x_f = Leaf(TRUE)
  /\ t_f = Leaf(TRUE)
  /\ t_b = Leaf(FALSE)
  /\ raiseAt.call = 0

Init == InitWith(MaxIter, MaxEval)

FairInit == InitWith(MaxIter, FairMaxEval)

\* any inputs, with a budget of one line search
LossInit == InitWith(MaxIter, LossMaxEval)

\* the reference run with a budget that lets the counter pass 150
ReportInit == InitWith(ReportMaxIter, ReportMaxEval) /\ Reference

\* train (lines 177-191) up to the first test of LBFGS.step: the optimizer is
\* built, step evaluates closure once (orig_loss), counts it, and returns at
\* once when the gradient is already within tolerance_grad.  TV are the values
\* the sub-losses may take.
TrainOn(TV) ==
  /\ pc = "Idle"
  /\ \E v \in TV, optimal \in BOOLEAN :
       LET r == closure(grad, iter, reports, v, RaiseStage)
       IN /\ Called(r)
          /\ params' = forward(params)
          /\ current_evals' = IF r.ok THEN 1 ELSE current_evals
          /\ pc' = Outcome(r, IF optimal THEN "Converged" ELSE "loop")
  /\ UNCHANGED <<n_iter, ls_func_evals, x_init, writes,
                 x_f, t_f, t_b, max_iter, max_eval, raiseAt>>

\* LBFGS.step, head of `while n_iter < max_iter`: the iteration is counted and
\* the direction computed; the loop is left when the directional derivative
\* is within tolerance_change, else the parameters are cloned for the line
\* search
IterBegin ==
  /\ pc = "loop"
  /\ n_iter < max_iter
  /\ n_iter' = n_iter + 1
  /\ \E flat \in BOOLEAN :
       IF flat
       THEN /\ pc' = "Converged"
            /\ UNCHANGED <<x_init, ls_func_evals>>
       ELSE /\ pc' = "ls"
            /\ x_init' = params
            /\ ls_func_evals' = 0
  /\ UNCHANGED <<iter, params, grad, reports, current_evals, last, writes,
                 x_f, t_f, t_b, max_iter, max_eval, raiseAt>>

\* LBFGS._directional_evaluate, called by strong_wolfe: the parameters are
\* moved to a trial point, closure is evaluated there, the parameters are set
\* back to x_init; then strong_wolfe either asks for another trial or stops.
\* When closure raises, the statement that sets the parameters back is not
\* reached and the parameters stay at the trial point, which is any point.
DirectionalEvaluateOn(TV) ==
  /\ pc = "ls"
  /\ iter < MaxCalls
  /\ \E v \in TV, more \in BOOLEAN :
       LET r == closure(grad, iter, reports, v, RaiseStage)
       IN /\ Called(r)
          /\ IF r.ok
             THEN /\ params' = x_init
                  /\ writes' = writes + 2
                  /\ ls_func_evals' = ls_func_evals + 1
             ELSE /\ params' \in {forward(trial) : trial \in ParamValues}
                  /\ writes' = writes + 1
                  /\ UNCHANGED ls_func_evals
          /\ pc' = Outcome(r, IF more /\ LsMayContinue(ls_func_evals + 1)
                              THEN "ls" ELSE "update")
  /\ UNCHANGED <<n_iter, current_evals, x_init,
                 x_f, t_f, t_b, max_iter, max_eval, raiseAt>>

\* LBFGS.step after strong_wolfe returned: the accepted step is added to the
\* parameters, the evaluations of the line search are counted, and the loop
\* is left on the first test that holds, in the order of the code: n_iter ==
\* max_iter, current_evals >= max_eval, then the tolerance tests.  The local
\* ls_func_evals is dead once counted (the next iteration sets it to 0 before
\* its line search), so it is cleared here.
StepUpdate ==
  /\ pc = "update"
  /\ \E accepted \in ParamValues, within \in BOOLEAN :
       /\ params' = accepted
       /\ writes' = writes + 1
       /\ current_evals' = current_evals + ls_func_evals
       /\ ls_func_evals' = 0
       /\ pc' = IF n_iter = max_iter THEN "IterationBudgetExhausted"
                ELSE IF current_evals' >= max_eval THEN "IterationBudgetExhausted"
                ELSE IF within THEN "Converged"
                ELSE "loop"
  /\ UNCHANGED <<iter, grad, reports, n_iter, x_init, last,
                 x_f, t_f, t_b, max_iter, max_eval, raiseAt>>

\* the steps of a run at the points of SteadyTermValues
Train == TrainOn(SteadyTermValues)

DirectionalEvaluate == DirectionalEvaluateOn(SteadyTermValues)

Next == Train \/ IterBegin \/ DirectionalEvaluate \/ StepUpdate

Spec == Init /\ [][Next]_vars

\* train runs in one thread to completion: a step that can be taken is taken
FairSpec == FairInit /\ [][Next]_vars /\ WF_vars(Next)

ReportSpec == ReportInit /\ [][Next]_vars

\* the same steps at any point: every combination of sub-loss values
LossTrain == TrainOn(TermValues)

LossDirectionalEvaluate == DirectionalEvaluateOn(TermValues)

LossNext == LossTrain \/ IterBegin \/ LossDirectionalEvaluate \/ StepUpdate

LossSpec == LossInit /\ [][LossNext]_vars

\* ---------------------------------------------------------------- claims
\* the steps of a closure call that returns, in order
FullLog ==
  <<"zero_grad", "mse_f", "mse_0", "mse_dirichlet", "mse_neumann",
    "backward", "iter", "return">>

\* C1: the counter starts at 0, moves only in steps of one and only in a
\* closure evaluation, every evaluation that returns adds one, and it always
\* equals the number of evaluations the optimizer has counted (those of the
\* running line search included).
C1_CounterCountsEvaluations ==
  /\ [](pc = "Idle" => iter = 0)
  /\ [](iter = current_evals + ls_func_evals)
  /\ [][iter' # iter => (iter' = iter + 1 /\ (pc = "Idle" \/ pc = "ls"))]_vars
  /\ [][((pc = "Idle" \/ pc = "ls") /\ last'.ok) => (iter' = iter + 1)]_vars

\* C1 witness: the second evaluation of a line search of the second iteration
C1_Witness ==
  /\ pc = "ls"
  /\ n_iter = 2
  /\ ls_func_evals = 2
  /\ iter = current_evals + 2

\* C2: the optimizer writes the parameters only when the closure evaluation
\* before the write returned after computing the gradient that the
\* parameters now hold; so never before the first evaluation and never after
\* one that raised.
C2_UpdateAfterGradient ==
  [][(writes' # writes \/ params' # params)
       => /\ last.ok
          /\ last.log = FullLog
          /\ grad = {iter}
          /\ iter >= 1]_vars

\* C2 witness: an accepted step has been added after a line search
C2_Witness ==
  /\ pc = "loop"
  /\ n_iter = 1
  /\ writes >= 3
  /\ last.ok

\* C3 as stated: once a closure evaluation has raised, the parameters hold
\* the values the last successful update left (x_init, the values the running
\* iteration started from; the initialized values when no update was made).
C3_FailureKeepsLastUpdate ==
  pc = "Failed" => params = x_init

\* C4 as stated: in the reference run the first closure evaluation raises in
\* mse_b and the run ends in Failed with no evaluation completed.
C4_ReferenceRunFails ==
  Reference /\ pc # "Idle" => pc = "Failed" /\ last.stage = "mse_b" /\ iter = 0

\* C5: every run reaches a terminal state and stays in it unchanged; the
\* budget state is entered only on an exhausted budget, the failed state
\* only on a raise, and the iterations and the evaluations of a line search
\* stay within their caps.
C5_Terminates ==
  /\ <>(pc \in Terminal)
  /\ [][(pc \in Terminal) => UNCHANGED vars]_vars
  /\ [](pc = "IterationBudgetExhausted"
          => n_iter = max_iter \/ current_evals >= max_eval)
  /\ [](pc = "Converged" => last.ok)
  /\ [](n_iter <= max_iter /\ ls_func_evals <= max_ls + 1)

\* C5 witness: the run ended on the evaluation budget before max_iter
C5_Witness ==
  /\ pc = "IterationBudgetExhausted"
  /\ n_iter < max_iter
  /\ current_evals >= max_eval

\* C6: there is one report per multiple of 50 the counter has reached, the
\* k-th carrying 50 * k; a report is added only by the evaluation that brings
\* the counter to a multiple of 50 and carries that counter and that
\* evaluation's loss.
C6_ReportEvery50 ==
  /\ [](Len(reports) = iter \div 50)
  /\ [](\A k \in 1..Len(reports) : reports[k][1] = 50 * k)
  /\ [][reports' # reports
          => /\ iter' = iter + 1
             /\ iter' % 50 = 0
             /\ last'.ok
             /\ reports' = Append(reports, <<iter', last'.loss>>)]_vars

\* C6 witness: evaluations 50, 100 and 150 were reported, not all with the
\* same loss, and the evaluation after them was not
C6_Witness ==
  /\ Len(reports) = 3
  /\ reports[1][1] = 50
  /\ reports[2][1] = 100
  /\ reports[3][1] = 150
  /\ reports[1][2] # reports[2][2]
  /\ iter = 151

\* C7 as stated: a failed run has reported its iteration count and last loss.
C7_FailureReported ==
  pc = "Failed" => Len(reports) > 0 /\ reports[Len(reports)][1] = iter

\* C8: whatever values the four sub-losses take at the evaluated point, a
\* closure evaluation that returns hands its caller one scalar, and that
\* scalar is the residual term plus the initial term plus the boundary term
\* (Dirichlet plus Neumann) at that point; an evaluation that raises hands
\* over nothing.  Every combination of values is reached.
C8_LossIsSum ==
  /\ last.ok =>
       /\ Len(last.ret) = 1
       /\ last.ret[1] = last.terms.f + last.terms.z
                          + (last.terms.d + last.terms.n)
       /\ last.terms \in TermValues
  /\ ~last.ok => last.ret = <<>>

\* C8 witness: an evaluation in a line search returned with all four terms
\* positive
C8_Witness ==
  /\ last.ok
  /\ iter = 2
  /\ last.terms = [f |-> 1, z |-> 1, d |-> 1, n |-> 1]
  /\ last.ret = <<4>>

\* C9: a closure evaluation, returning or raising, leaves the parameters as
\* it found them; they change only in a write of the optimizer.
C9_ClosureKeepsParams ==
  /\ [](last.kept)
  /\ [][params' # params => writes' # writes]_vars
  /\ [][pc = "Idle" => params' = params /\ writes' = writes]_vars

\* C9 witness: an evaluation at a trial point has returned and the optimizer
\* has set the parameters back
C9_Witness ==
  /\ pc = "ls"
  /\ last.ok
  /\ last.kept
  /\ writes = 2
  /\ params = x_init

\* C10: a closure evaluation that returns has run its steps in the order
\* zero_grad, loss, backward, counter, return; the gradients then are those
\* of this evaluation alone and the loss is that of this evaluation.
C10_FreshGradients ==
  last.ok =>
    /\ last.log = FullLog
    /\ grad = {iter}
    /\ last.loss = last.terms.f + last.terms.z + last.terms.d + last.terms.n

\* C10 witness: a third evaluation returned
C10_Witness ==
  /\ last.ok
  /\ iter = 3
  /\ grad = {3}

====
